---- MODULE Spec2Model ----
(***************************************************************************)
(* A model of the argyle backend: the Credential Store (users), the token *)
(* service (JWT issue / decode), the access gate (get_user_from_token),   *)
(* the auth endpoints of api/views.py and the SongViewSet.                 *)
(*                                                                         *)
(* Emails are pairs <<local, domain>>; the empty email is <<>>.            *)
(* Passwords are strings, "" is the missing / empty password.             *)
(* A stored password hash is <<algorithm, raw>>; <<"!", "">> is Django's   *)
(* unusable password.  Every HTTP response is a record                     *)
(* [op, status, body, set_cookie, cookie, arg] kept in the variable resp:  *)
(* cookie is the cookie of the request, arg the email and password, the   *)
(* song id, the 'user' field of the payload (create), or both (update).   *)
(***************************************************************************)
EXTENDS Integers, Sequences, FiniteSets, TLC

\* ------------------------------------------------------------------ bounds
\* the number of requests that change the stores, the cookie jar or the clock
MaxOps == 3

\* the number of signup requests that can be in flight at once
MaxRequests == 2

\* ------------------------------------------------------- program constants
\* timedelta(days=7) in seconds; also the cookie's max_age
SevenDays == 604800

VARIABLES
    users,        \* Credential Store: user id -> row of table "users"
    songs,        \* Resource Store:   song id -> row of table "songs"
    nextUserId,   \* autoincrement of users.id
    nextSongId,   \* autoincrement of songs.id
    jar,          \* auth-token cookies issued so far
    now,          \* the clock, in seconds
    ops,          \* number of state-changing steps so far
    observed,     \* the last request left stores, jar and clock as they were
    resp,         \* the last HTTP response
    inflight      \* signup requests being handled step by step, per worker

vars == <<users, songs, nextUserId, nextSongId, jar, now, ops, observed, resp, inflight>>

\* ------------------------------------------------------------ input values
NoEmail == <<>>
Emails == { <<"a", "x.com">>, <<"a", "X.COM">>, <<"b", "x.com">> }
NoPassword == ""
Passwords == { "p1", "p2" }
Names == { "Ann" }
TickSteps == { SevenDays - 1, 2 }
None == 0

\* str.lower() on the domains of the model
lower(s) == IF s = "X.COM" THEN "x.com" ELSE s

\* BaseUserManager.normalize_email: lowercase the domain part only
normalize_email(email) ==
    IF email = NoEmail THEN email ELSE <<email[1], lower(email[2])>>

\* the emails the signup form is given: already in normal form
FormEmails == { e \in Emails : normalize_email(e) = e }

\* case-insensitive comparison key (email__iexact)
casefold(email) ==
    IF email = NoEmail THEN email ELSE <<lower(email[1]), lower(email[2])>>

\* ---------------------------------------------------------- password hashes
UnusablePassword == <<"!", "">>

\* AbstractBaseUser.set_password / make_password: None gives an unusable hash
\* (NoPassword stands for None here: signup never passes an empty password on)
make_password(raw) ==
    IF raw = NoPassword THEN UnusablePassword ELSE <<"pbkdf2_sha256", raw>>

has_usable_password(u) == u.password[1] # "!"

check_password(u, raw) ==
    /\ has_usable_password(u)
    /\ u.password = <<"pbkdf2_sha256", raw>>

\* ModelBackend.user_can_authenticate
user_can_authenticate(u) == u.is_active

\* ------------------------------------------------------------------ cookies
Secret == "secret"

NoCookie ==
    [kind |-> "none", userId |-> 0, email |-> NoEmail, name |-> "", exp |-> 0, key |-> ""]
Garbage ==
    [kind |-> "garbage", userId |-> 0, email |-> NoEmail, name |-> "", exp |-> 0, key |-> ""]

\* issue_token as it would be with timedelta(days=30)
issue_token_thirty_days(user) ==
    [kind |-> "jwt", userId |-> user.id, email |-> user.email,
     name |-> user.name, exp |-> now + 30 * 86400, key |-> Secret]

\* jwt.encode of the payload built by login and signup
issue_token(user) ==
    [kind |-> "jwt", userId |-> user.id, email |-> user.email,
     name |-> user.name, exp |-> now + SevenDays, key |-> Secret]

\* a token signed with another key, naming the first user id
Forged ==
    [kind |-> "jwt", userId |-> 1, email |-> NoEmail, name |-> "",
     exp |-> now + SevenDays, key |-> "other"]

\* every cookie a request can carry in the current state
Cookies == {NoCookie, Garbage, Forged} \cup jar

\* jwt.decode as it would be with the expiry check switched off
jwt_decode_no_expiry(token) ==
    IF token.kind # "jwt" THEN "DecodeError"
    ELSE IF token.key # Secret THEN "InvalidSignatureError"
    ELSE "ok"

\* jwt.decode(token, secret, algorithms=['HS256']): "ok", or the name of
\* the jwt.InvalidTokenError subclass it raises
jwt_decode(token) ==
    IF token.kind # "jwt" THEN "DecodeError"
    ELSE IF token.key # Secret THEN "InvalidSignatureError"
    ELSE IF token.exp <= now THEN "ExpiredSignatureError"
    ELSE "ok"

\* ---------------------------------------------------------------- responses
Response(op, status, body, set_cookie, cookie, arg) ==
    [op |-> op, status |-> status, body |-> body, set_cookie |-> set_cookie,
     cookie |-> cookie, arg |-> arg]

ErrorBody(msg) == [error |-> msg]

UserBody(u) == [success |-> TRUE, user |-> [id |-> u.id, email |-> u.email, name |-> u.name]]

\* ------------------------------------------------------ authentication
\* EmailBackend.authenticate: exact lookup by email, then password and is_active
EmailBackend(username, password) ==
    IF \E i \in DOMAIN users : users[i].email = username
    THEN LET user == users[CHOOSE i \in DOMAIN users : users[i].email = username]
         IN  IF check_password(user, password) /\ user_can_authenticate(user)
             THEN user.id ELSE None
    ELSE None

\* a backend that looks the email up case-insensitively
FallbackBackend(username, password) ==
    LET found == { i \in DOMAIN users :
                     /\ casefold(users[i].email) = casefold(username)
                     /\ check_password(users[i], password)
                     /\ user_can_authenticate(users[i]) }
    IN  IF found = {} THEN None ELSE CHOOSE i \in found : TRUE

\* django.contrib.auth.authenticate over AUTHENTICATION_BACKENDS
authenticate(username, password, ci) ==
    IF EmailBackend(username, password) # None THEN EmailBackend(username, password)
    ELSE IF ci THEN FallbackBackend(username, password)
    ELSE None

\* ---------------------------------------------------------- auth endpoints
\* login as it would be if it told a deactivated account apart
login_reveals_inactive(email, password, ci) ==
    IF email = NoEmail \/ password = NoPassword
    THEN Response("login", 400, ErrorBody("Email and password are required"),
                  NoCookie, NoCookie, <<email, password>>)
    ELSE IF authenticate(email, password, ci) # None
    THEN LET user == users[authenticate(email, password, ci)]
         IN  Response("login", 200, UserBody(user), issue_token(user),
                      NoCookie, <<email, password>>)
    ELSE IF \E i \in DOMAIN users : users[i].email = email /\ ~users[i].is_active
    THEN Response("login", 401, ErrorBody("Account disabled"),
                  NoCookie, NoCookie, <<email, password>>)
    ELSE Response("login", 401, ErrorBody("Invalid credentials"),
                  NoCookie, NoCookie, <<email, password>>)

\* login: the response
login(email, password, ci) ==
    IF email = NoEmail \/ password = NoPassword
    THEN Response("login", 400, ErrorBody("Email and password are required"),
                  NoCookie, NoCookie, <<email, password>>)
    ELSE IF authenticate(email, password, ci) # None
    THEN LET user == users[authenticate(email, password, ci)]
         IN  Response("login", 200, UserBody(user), issue_token(user),
                      NoCookie, <<email, password>>)
    ELSE Response("login", 401, ErrorBody("Invalid credentials"),
                  NoCookie, NoCookie, <<email, password>>)

Login(email, password, ci) ==
    LET r == login(email, password, ci)
    IN  /\ ~observed
        /\ UNCHANGED inflight
        /\ r.status = 200 => ops < MaxOps
        /\ resp' = r
        /\ jar' = IF r.status = 200 THEN jar \cup {r.set_cookie} ELSE jar
        /\ ops' = IF r.status = 200 THEN ops + 1 ELSE ops
        /\ observed' = (r.status # 200)
        /\ UNCHANGED <<users, songs, nextUserId, nextSongId, now>>

\* UserManager.create_user: the new row
create_user(email, password, name) ==
    [id |-> nextUserId, email |-> normalize_email(email),
     password |-> make_password(password), name |-> name, is_active |-> TRUE]

\* email_taken as it would be if users.email were not declared unique
email_taken_not_unique(email) == FALSE

\* the unique constraint on users.email
email_taken(email) == \E i \in DOMAIN users : users[i].email = email

\* signup: the response
signup(email, password, name) ==
    IF email = NoEmail \/ password = NoPassword
    THEN Response("signup", 400, ErrorBody("Email and password are required"),
                  NoCookie, NoCookie, <<email, password>>)
    ELSE IF \E i \in DOMAIN users : users[i].email = email
    THEN Response("signup", 400, ErrorBody("User with this email already exists"),
                  NoCookie, NoCookie, <<email, password>>)
    ELSE IF email_taken(create_user(email, password, name).email)
    THEN Response("signup", 500, ErrorBody("IntegrityError"),
                  NoCookie, NoCookie, <<email, password>>)
    ELSE LET user == create_user(email, password, name)
         IN  Response("signup", 201, UserBody(user), issue_token(user),
                      NoCookie, <<email, password>>)

\* Signup as it would be if a signup for an existing email, refused as it
\* is, stored the password it carried
Signup_stores_password(email, password, name) ==
    LET r == signup(email, password, name)
        hit == { i \in DOMAIN users : users[i].email = normalize_email(email) }
    IN  /\ ~observed
        /\ UNCHANGED inflight
        /\ r.status = 201 => ops < MaxOps
        /\ resp' = r
        /\ observed' = (r.status # 201)
        /\ IF r.status = 201
           THEN /\ users' = (nextUserId :> create_user(email, password, name)) @@ users
                /\ nextUserId' = nextUserId + 1
                /\ jar' = jar \cup {r.set_cookie}
                /\ ops' = ops + 1
           ELSE /\ users' = [i \in DOMAIN users |->
                               IF i \in hit /\ password # NoPassword
                               THEN [users[i] EXCEPT !.password = make_password(password)]
                               ELSE users[i]]
                /\ UNCHANGED <<nextUserId, jar, ops>>
        /\ UNCHANGED <<songs, nextSongId, now>>

Signup(email, password, name) ==
    LET r == signup(email, password, name)
    IN  /\ ~observed
        /\ UNCHANGED inflight
        /\ r.status = 201 => ops < MaxOps
        /\ resp' = r
        /\ observed' = (r.status # 201)
        /\ IF r.status = 201
           THEN /\ users' = (nextUserId :> create_user(email, password, name)) @@ users
                /\ nextUserId' = nextUserId + 1
                /\ jar' = jar \cup {r.set_cookie}
                /\ ops' = ops + 1
           ELSE UNCHANGED <<users, nextUserId, jar, ops>>
        /\ UNCHANGED <<songs, nextSongId, now>>

\* ------------------------------------ signup, one statement group at a time
\* the requests handled at the same time, each by its own worker
Workers == 1..MaxRequests

\* a worker between requests
Idle ==
    [pc |-> "idle", email |-> NoEmail, password |-> NoPassword, name |-> "",
     status |-> 0, set_cookie |-> NoCookie]

\* signup up to the existence check: the request is answered 400, or goes on
\* to create_user
SignupCheck(w, email, password, name) ==
    /\ inflight[w].pc = "idle"
    /\ IF email = NoEmail \/ password = NoPassword
          \/ \E i \in DOMAIN users : users[i].email = email
       THEN /\ resp' = signup(email, password, name)
            /\ inflight' = [inflight EXCEPT ![w] =
                   [pc |-> "done", email |-> email, password |-> password,
                    name |-> name, status |-> 400, set_cookie |-> NoCookie]]
       ELSE /\ resp' = resp
            /\ inflight' = [inflight EXCEPT ![w] =
                   [pc |-> "checked", email |-> email, password |-> password,
                    name |-> name, status |-> 0, set_cookie |-> NoCookie]]
    /\ UNCHANGED <<users, songs, nextUserId, nextSongId, jar, now, ops, observed>>

\* signup from create_user on: the INSERT, under the unique constraint on
\* users.email, then the response
SignupWrite(w) ==
    LET req == inflight[w]
        user == create_user(req.email, req.password, req.name)
    IN  /\ req.pc = "checked"
        /\ IF email_taken(user.email)
           THEN /\ resp' = Response("signup", 500, ErrorBody("IntegrityError"),
                                    NoCookie, NoCookie, <<req.email, req.password>>)
                /\ inflight' = [inflight EXCEPT ![w].pc = "done", ![w].status = 500]
                /\ UNCHANGED <<users, nextUserId, jar>>
           ELSE /\ resp' = Response("signup", 201, UserBody(user), issue_token(user),
                                    NoCookie, <<req.email, req.password>>)
                /\ inflight' = [inflight EXCEPT ![w].pc = "done", ![w].status = 201,
                                                ![w].set_cookie = issue_token(user)]
                /\ users' = (nextUserId :> user) @@ users
                /\ nextUserId' = nextUserId + 1
                /\ jar' = jar \cup {issue_token(user)}
        /\ UNCHANGED <<songs, nextSongId, now, ops, observed>>

\* the access gate: the id of the user the cookie resolves to, or None
get_user_from_token(token) ==
    IF token.kind = "none" THEN None
    ELSE IF jwt_decode(token) # "ok" THEN None
    ELSE IF token.userId \notin DOMAIN users THEN None
    ELSE token.userId

\* get_current_user as it would be if it told an expired token apart
get_current_user_says_expired(token) ==
    IF token.kind = "none"
    THEN Response("me", 401, [success |-> FALSE, error |-> "Not authenticated"],
                  NoCookie, token, <<>>)
    ELSE IF jwt_decode(token) = "ExpiredSignatureError"
    THEN Response("me", 401, [success |-> FALSE, error |-> "Token expired"],
                  NoCookie, token, <<>>)
    ELSE IF jwt_decode(token) # "ok" \/ token.userId \notin DOMAIN users
    THEN Response("me", 401, [success |-> FALSE, error |-> "Invalid token"],
                  NoCookie, token, <<>>)
    ELSE Response("me", 200, UserBody(users[token.userId]), NoCookie, token, <<>>)

\* get_current_user (GET /auth/me): the response
get_current_user(token) ==
    IF token.kind = "none"
    THEN Response("me", 401, [success |-> FALSE, error |-> "Not authenticated"],
                  NoCookie, token, <<>>)
    ELSE IF jwt_decode(token) # "ok" \/ token.userId \notin DOMAIN users
    THEN Response("me", 401, [success |-> FALSE, error |-> "Invalid token"],
                  NoCookie, token, <<>>)
    ELSE Response("me", 200, UserBody(users[token.userId]), NoCookie, token, <<>>)

Me(token) ==
    /\ ~observed
    /\ UNCHANGED inflight
    /\ resp' = get_current_user(token)
    /\ UNCHANGED <<users, songs, nextUserId, nextSongId, jar, now, ops>>
    /\ observed' = TRUE

\* logout: clears the cookie on the client, changes nothing on the server
logout == Response("logout", 200, [success |-> TRUE], NoCookie, NoCookie, <<>>)

\* Logout as it would be if the server withdrew the tokens it had issued
Logout_withdraws_tokens ==
    /\ ~observed
    /\ UNCHANGED inflight
    /\ resp' = logout
    /\ jar' = {}
    /\ UNCHANGED <<users, songs, nextUserId, nextSongId, now, ops>>
    /\ observed' = TRUE

Logout ==
    /\ ~observed
    /\ UNCHANGED inflight
    /\ resp' = logout
    /\ UNCHANGED <<users, songs, nextUserId, nextSongId, jar, now, ops>>
    /\ observed' = TRUE

\* ------------------------------------------------------------ SongViewSet
\* request bodies of create and update: JSON objects, some fields absent
Payloads ==
    { [sequence |-> "[]"],
      [title |-> "T1", sequence |-> "[]"],
      [title |-> "T2", sequence |-> "[]", is_public |-> TRUE] }
    \cup { [title |-> "T1", sequence |-> "[]", user |-> i] :
              i \in DOMAIN users \cup {nextUserId} }

\* ids a request can name: every stored song and the next, unused id
Pks == DOMAIN songs \cup {nextSongId}

\* SongSerializer(song).data
SongData(song) ==
    [id |-> song.id, user |-> song.user, title |-> song.title,
     sequence |-> song.sequence, is_public |-> song.is_public,
     created_at |-> song.created_at,
     author_name |-> users[song.user].name]

\* Song.Meta.ordering = ['-created_at']; rows of one second in insertion order
Newest(S) ==
    CHOOSE i \in S : \A j \in S :
        \/ songs[i].created_at > songs[j].created_at
        \/ songs[i].created_at = songs[j].created_at /\ i >= j

RECURSIVE Serialize(_)
Serialize(S) ==
    IF S = {} THEN <<>>
    ELSE <<SongData(songs[Newest(S)])>> \o Serialize(S \ {Newest(S)})

\* get_queryset as it would be if it also held the public songs of others
get_queryset_with_public(token) ==
    IF get_user_from_token(token) # None
    THEN { i \in DOMAIN songs :
             songs[i].user = get_user_from_token(token) \/ songs[i].is_public }
    ELSE {}

\* Song.objects.filter(user=user) / Song.objects.none(), as a set of ids
get_queryset(token) ==
    IF get_user_from_token(token) # None
    THEN { i \in DOMAIN songs : songs[i].user = get_user_from_token(token) }
    ELSE {}

\* list as it would be if public songs of other users were included
list_with_public(token) ==
    LET user == get_user_from_token(token)
        found == IF user # None
                 THEN { i \in DOMAIN songs : songs[i].user = user \/ songs[i].is_public }
                 ELSE {}
    IN  Response("list", 200, [items |-> Serialize(found)], NoCookie, token, <<>>)

\* SongViewSet.list: the response
list(token) ==
    LET user == get_user_from_token(token)
        found == IF user # None
                 THEN { i \in DOMAIN songs : songs[i].user = user }
                 ELSE {}
    IN  Response("list", 200, [items |-> Serialize(found)], NoCookie, token, <<>>)

List(token) ==
    /\ ~observed
    /\ UNCHANGED inflight
    /\ resp' = list(token)
    /\ UNCHANGED <<users, songs, nextUserId, nextSongId, jar, now, ops>>
    /\ observed' = TRUE

\* retrieve as it would be if a private song of another user were answered 403
retrieve_forbidden(token, pk) ==
    LET user == get_user_from_token(token)
    IN  IF pk \in DOMAIN songs
        THEN IF songs[pk].user # user /\ ~songs[pk].is_public
             THEN Response("retrieve", 403, ErrorBody("Forbidden"), NoCookie, token, pk)
             ELSE Response("retrieve", 200, SongData(songs[pk]), NoCookie, token, pk)
        ELSE Response("retrieve", 404, ErrorBody("Not found"), NoCookie, token, pk)

\* retrieve as it would be if the is_public flag were not consulted
retrieve_owner_only(token, pk) ==
    LET user == get_user_from_token(token)
    IN  IF pk \in DOMAIN songs
        THEN IF songs[pk].user # user
             THEN Response("retrieve", 404, ErrorBody("Not found"), NoCookie, token, pk)
             ELSE Response("retrieve", 200, SongData(songs[pk]), NoCookie, token, pk)
        ELSE Response("retrieve", 404, ErrorBody("Not found"), NoCookie, token, pk)

\* SongViewSet.retrieve: the response
retrieve(token, pk) ==
    LET user == get_user_from_token(token)
    IN  IF pk \in DOMAIN songs
        THEN IF songs[pk].user # user /\ ~songs[pk].is_public
             THEN Response("retrieve", 404, ErrorBody("Not found"), NoCookie, token, pk)
             ELSE Response("retrieve", 200, SongData(songs[pk]), NoCookie, token, pk)
        ELSE Response("retrieve", 404, ErrorBody("Not found"), NoCookie, token, pk)

Retrieve(token, pk) ==
    /\ ~observed
    /\ UNCHANGED inflight
    /\ resp' = retrieve(token, pk)
    /\ UNCHANGED <<users, songs, nextUserId, nextSongId, jar, now, ops>>
    /\ observed' = TRUE

\* serializer.is_valid: title and sequence are required unless partial
is_valid(data, partial) ==
    partial \/ ("title" \in DOMAIN data /\ "sequence" \in DOMAIN data)

\* the writable fields of SongSerializer: 'user' is read-only and dropped
validated(data, field, default) ==
    IF field \in DOMAIN data THEN data[field] ELSE default

\* new_song as it would be if 'user' were a writable field of the serializer
new_song_payload_owner(user, data) ==
    [id |-> nextSongId, user |-> validated(data, "user", user),
     title |-> validated(data, "title", ""),
     sequence |-> validated(data, "sequence", ""),
     is_public |-> validated(data, "is_public", FALSE),
     created_at |-> now]

\* new_song as it would be if Song.is_public had default=True
new_song_public_default(user, data) ==
    [id |-> nextSongId, user |-> user,
     title |-> validated(data, "title", ""),
     sequence |-> validated(data, "sequence", ""),
     is_public |-> validated(data, "is_public", TRUE),
     created_at |-> now]

\* serializer.save(user=user) on create: the new row
new_song(user, data) ==
    [id |-> nextSongId, user |-> user,
     title |-> validated(data, "title", ""),
     sequence |-> validated(data, "sequence", ""),
     is_public |-> validated(data, "is_public", FALSE),
     created_at |-> now]

\* updated_song as it would be if 'user' were a writable field of the serializer
updated_song_payload_owner(song, data) ==
    [id |-> song.id, user |-> validated(data, "user", song.user),
     title |-> validated(data, "title", song.title),
     sequence |-> validated(data, "sequence", song.sequence),
     is_public |-> validated(data, "is_public", song.is_public),
     created_at |-> song.created_at]

\* serializer.save() on update: the changed row
updated_song(song, data) ==
    [id |-> song.id, user |-> song.user,
     title |-> validated(data, "title", song.title),
     sequence |-> validated(data, "sequence", song.sequence),
     is_public |-> validated(data, "is_public", song.is_public),
     created_at |-> song.created_at]

\* create as it would be if the payload were validated before the caller
create_validate_first(token, data) ==
    LET user == get_user_from_token(token)
    IN  IF ~is_valid(data, FALSE)
        THEN Response("create", 400, ErrorBody("This field is required."),
                      NoCookie, token, validated(data, "user", None))
        ELSE IF user = None
        THEN Response("create", 401, ErrorBody("Authentication required"),
                      NoCookie, token, validated(data, "user", None))
        ELSE Response("create", 201,
                      [id |-> nextSongId, user |-> user,
                       title |-> validated(data, "title", ""),
                       sequence |-> validated(data, "sequence", ""),
                       is_public |-> validated(data, "is_public", FALSE),
                       created_at |-> now,
                       author_name |-> users[user].name],
                      NoCookie, token, validated(data, "user", None))

\* SongViewSet.create: the response
create(token, data) ==
    LET user == get_user_from_token(token)
    IN  IF user = None
        THEN Response("create", 401, ErrorBody("Authentication required"),
                      NoCookie, token, validated(data, "user", None))
        ELSE IF ~is_valid(data, FALSE)
        THEN Response("create", 400, ErrorBody("This field is required."),
                      NoCookie, token, validated(data, "user", None))
        ELSE Response("create", 201,
                      [id |-> nextSongId, user |-> user,
                       title |-> new_song(user, data).title,
                       sequence |-> new_song(user, data).sequence,
                       is_public |-> new_song(user, data).is_public,
                       created_at |-> now,
                       author_name |-> users[user].name],
                      NoCookie, token, validated(data, "user", None))

Create(token, data) ==
    LET r == create(token, data)
    IN  /\ ~observed
        /\ UNCHANGED inflight
        /\ r.status = 201 => ops < MaxOps
        /\ resp' = r
        /\ observed' = (r.status # 201)
        /\ IF r.status = 201
           THEN /\ songs' = (nextSongId :> new_song(get_user_from_token(token), data)) @@ songs
                /\ nextSongId' = nextSongId + 1
                /\ ops' = ops + 1
           ELSE UNCHANGED <<songs, nextSongId, ops>>
        /\ UNCHANGED <<users, nextUserId, jar, now>>

\* ModelViewSet.update / partial_update over get_queryset: the response
update(token, pk, data, partial) ==
    IF pk \notin get_queryset(token)
    THEN Response("update", 404, [detail |-> "Not found."], NoCookie, token, <<pk, validated(data, "user", None)>>)
    ELSE IF ~is_valid(data, partial)
    THEN Response("update", 400, ErrorBody("This field is required."),
                  NoCookie, token, <<pk, validated(data, "user", None)>>)
    ELSE Response("update", 200,
                  [id |-> pk, user |-> songs[pk].user,
                   title |-> updated_song(songs[pk], data).title,
                   sequence |-> updated_song(songs[pk], data).sequence,
                   is_public |-> updated_song(songs[pk], data).is_public,
                   created_at |-> songs[pk].created_at,
                   author_name |-> users[songs[pk].user].name],
                  NoCookie, token, <<pk, validated(data, "user", None)>>)

Update(token, pk, data, partial) ==
    LET r == update(token, pk, data, partial)
    IN  /\ ~observed
        /\ UNCHANGED inflight
        /\ r.status = 200 => ops < MaxOps
        /\ resp' = r
        /\ observed' = (r.status # 200)
        /\ IF r.status = 200
           THEN /\ songs' = [songs EXCEPT ![pk] = updated_song(songs[pk], data)]
                /\ ops' = ops + 1
           ELSE UNCHANGED <<songs, ops>>
        /\ UNCHANGED <<users, nextUserId, nextSongId, jar, now>>

\* ModelViewSet.destroy over get_queryset: the response
destroy(token, pk) ==
    IF pk \notin get_queryset(token)
    THEN Response("destroy", 404, [detail |-> "Not found."], NoCookie, token, pk)
    ELSE Response("destroy", 204, [detail |-> ""], NoCookie, token, pk)

Destroy(token, pk) ==
    LET r == destroy(token, pk)
    IN  /\ ~observed
        /\ UNCHANGED inflight
        /\ r.status = 204 => ops < MaxOps
        /\ resp' = r
        /\ observed' = (r.status # 204)
        /\ IF r.status = 204
           THEN /\ songs' = [i \in DOMAIN songs \ {pk} |-> songs[i]]
                /\ ops' = ops + 1
           ELSE UNCHANGED <<songs, ops>>
        /\ UNCHANGED <<users, nextUserId, nextSongId, jar, now>>

\* ------------------------------------------------- the allauth signup form
\* SignupForm.clean_email: TRUE when the form accepts the email
clean_email(email) ==
    IF email = NoEmail THEN TRUE
    ELSE IF \E i \in DOMAIN users : users[i].email = email
    THEN LET existing_user == users[CHOOSE i \in DOMAIN users : users[i].email = email]
         IN  ~has_usable_password(existing_user)
    ELSE TRUE

\* SignupForm.save: a new row is inserted, under the unique constraint on email
form_signup(email, password) ==
    IF ~clean_email(email)
    THEN Response("form_signup", 200,
                  ErrorBody("A user with this email address already exists."),
                  NoCookie, NoCookie, <<email, password>>)
    ELSE IF email_taken(email)
    THEN Response("form_signup", 500, ErrorBody("IntegrityError"),
                  NoCookie, NoCookie, <<email, password>>)
    ELSE Response("form_signup", 302, [location |-> "/accounts/signup/pending/"],
                  NoCookie, NoCookie, <<email, password>>)

FormSignup(email, password, name) ==
    LET r == form_signup(email, password)
    IN  /\ ~observed
        /\ UNCHANGED inflight
        /\ r.status = 302 => ops < MaxOps
        /\ resp' = r
        /\ observed' = (r.status # 302)
        /\ IF r.status = 302
           THEN /\ users' = (nextUserId :>
                                [id |-> nextUserId, email |-> email,
                                 password |-> make_password(password),
                                 name |-> name, is_active |-> TRUE]) @@ users
                /\ nextUserId' = nextUserId + 1
                /\ ops' = ops + 1
           ELSE UNCHANGED <<users, nextUserId, ops>>
        /\ UNCHANGED <<songs, nextSongId, jar, now>>

\* ------------------------------------------------------ store administration
\* an invited account: create_user(email) with password=None
Invite(email) ==
    /\ ~observed
    /\ UNCHANGED inflight
    /\ ops < MaxOps
    /\ ~email_taken(normalize_email(email))
    /\ users' = (nextUserId :> create_user(email, NoPassword, "")) @@ users
    /\ nextUserId' = nextUserId + 1
    /\ ops' = ops + 1
    /\ UNCHANGED <<songs, nextSongId, jar, now, resp>>
    /\ observed' = FALSE

\* UserAdmin delete: the row goes, and its songs with it (on_delete=CASCADE)
AdminDeleteUser(id) ==
    /\ ~observed
    /\ UNCHANGED inflight
    /\ ops < MaxOps
    /\ id \in DOMAIN users
    /\ users' = [i \in DOMAIN users \ {id} |-> users[i]]
    /\ songs' = [i \in { j \in DOMAIN songs : songs[j].user # id } |-> songs[i]]
    /\ ops' = ops + 1
    /\ UNCHANGED <<nextUserId, nextSongId, jar, now, resp>>
    /\ observed' = FALSE

\* UserAdmin change form: is_active unticked
AdminDeactivate(id) ==
    /\ ~observed
    /\ UNCHANGED inflight
    /\ ops < MaxOps
    /\ id \in DOMAIN users
    /\ users[id].is_active
    /\ users' = [users EXCEPT ![id].is_active = FALSE]
    /\ ops' = ops + 1
    /\ UNCHANGED <<songs, nextUserId, nextSongId, jar, now, resp>>
    /\ observed' = FALSE

\* time passes
Tick(d) ==
    /\ ~observed
    /\ UNCHANGED inflight
    /\ ops < MaxOps
    /\ now' = now + d
    /\ ops' = ops + 1
    /\ UNCHANGED <<users, songs, nextUserId, nextSongId, jar, resp>>
    /\ observed' = FALSE

\* ------------------------------------------------------------ specification
Init ==
    /\ users = <<>>
    /\ songs = <<>>
    /\ nextUserId = 1
    /\ nextSongId = 1
    /\ jar = {}
    /\ now = 0
    /\ ops = 0
    /\ observed = FALSE
    /\ resp = Response("none", 0, [detail |-> ""], NoCookie, NoCookie, <<>>)
    /\ inflight = [w \in Workers |-> Idle]

\* a run is a sequence of requests that change the state, then one that does not
Next ==
    \/ \E e \in Emails \cup {NoEmail}, p \in Passwords \cup {NoPassword}, n \in Names :
           Signup(e, p, n)
    \/ \E e \in Emails \cup {NoEmail}, p \in Passwords \cup {NoPassword},
          ci \in BOOLEAN : Login(e, p, ci)
    \/ \E c \in Cookies : Me(c)
    \/ Logout
    \/ \E c \in Cookies : List(c)
    \/ \E c \in Cookies, pk \in Pks : Retrieve(c, pk)
    \/ \E c \in Cookies, d \in Payloads : Create(c, d)
    \/ \E c \in Cookies, pk \in Pks, d \in Payloads, partial \in BOOLEAN :
           Update(c, pk, d, partial)
    \/ \E c \in Cookies, pk \in Pks : Destroy(c, pk)
    \/ \E e \in FormEmails, p \in Passwords, n \in Names : FormSignup(e, p, n)
    \/ \E e \in Emails : Invite(e)
    \/ \E i \in DOMAIN users : AdminDeleteUser(i)
    \/ \E i \in DOMAIN users : AdminDeactivate(i)
    \/ \E d \in TickSteps : Tick(d)

Spec == Init /\ [][Next]_vars

\* signup requests handled by several workers at once, their steps interleaved
NextSignups ==
    \/ \E w \in Workers, e \in Emails \cup {NoEmail},
          p \in Passwords \cup {NoPassword}, n \in Names : SignupCheck(w, e, p, n)
    \/ \E w \in Workers : SignupWrite(w)

SpecSignups == Init /\ [][NextSignups]_vars

\* ------------------------------------------------------------------ claims
\* A state property below speaks of the requests that can be made in a
\* state.  A request that changes nothing (observed) ends the run and leaves
\* users, songs, jar and the clock as its predecessor had them, so such a
\* property is stated for the states from which a request is made.
\* A step property about a request is stated for the step whose response
\* resp' carries that request's cookie and argument.
\* what a client sees of a response
Outcome(r) == <<r.status, r.body, r.set_cookie>>

\* C1: in every reachable state, for every cookie and every private song the
\* caller does not own, retrieve answers exactly what it answers for an id
\* no song has: 404 and the same body.
C1_PrivateLooksMissing ==
    ~observed =>
    \A c \in Cookies : \A pk \in DOMAIN songs :
        (~songs[pk].is_public /\ get_user_from_token(c) # songs[pk].user)
        => /\ retrieve(c, pk).status = 404
           /\ Outcome(retrieve(c, pk)) = Outcome(retrieve(c, nextSongId))

\* a logged-in user other than the owner has just asked for a private song
C1_Witness ==
    /\ resp.op = "retrieve"
    /\ resp.arg \in DOMAIN songs
    /\ ~songs[resp.arg].is_public
    /\ get_user_from_token(resp.cookie) # None
    /\ get_user_from_token(resp.cookie) # songs[resp.arg].user
    /\ resp.status = 404

\* the ids of the songs a list response carries
ItemIds(r) == { r.body.items[k].id : k \in 1..Len(r.body.items) }

\* C2: list answers 200 always; for a cookie that resolves to a user its
\* items are exactly that user's songs, each once, and for any other cookie
\* the collection is empty.
C2_ListOwnedOnly ==
    ~observed =>
    \A c \in Cookies :
        /\ list(c).status = 200
        /\ ItemIds(list(c)) =
              { i \in DOMAIN songs :
                  get_user_from_token(c) # None /\ songs[i].user = get_user_from_token(c) }
        /\ Len(list(c).body.items) = Cardinality(ItemIds(list(c)))
        /\ \A k \in 1..Len(list(c).body.items) :
              list(c).body.items[k] = SongData(songs[list(c).body.items[k].id])

\* a user has just listed while another user's public song is stored
C2_Witness ==
    /\ resp.op = "list"
    /\ get_user_from_token(resp.cookie) # None
    /\ \E i \in DOMAIN songs :
          songs[i].is_public /\ songs[i].user # get_user_from_token(resp.cookie)
    /\ resp.body.items = <<>>

\* C3: retrieve returns the song (200 and its data) exactly when a song
\* with that id exists and the caller owns it or it is public.
C3_RetrieveIff ==
    ~observed =>
    \A c \in Cookies : \A pk \in Pks :
        /\ retrieve(c, pk).status = 200
              <=> /\ pk \in DOMAIN songs
                  /\ \/ songs[pk].user = get_user_from_token(c)
                     \/ songs[pk].is_public
        /\ retrieve(c, pk).status = 200 => retrieve(c, pk).body = SongData(songs[pk])
        /\ retrieve(c, pk).status # 200 => retrieve(c, pk).status = 404

\* an anonymous caller has just been given another user's public song
C3_Witness ==
    /\ resp.op = "retrieve"
    /\ resp.status = 200
    /\ get_user_from_token(resp.cookie) = None
    /\ resp.arg \in DOMAIN songs
    /\ songs[resp.arg].is_public
    /\ resp.body.id = resp.arg

\* C4: a create whose cookie resolves to no user is answered 401 and
\* stores nothing.
C4_AnonymousCreateRefused ==
    [][resp'.op = "create"
       => \A c \in Cookies \cap {resp'.cookie} : \A d \in Payloads :
            (get_user_from_token(c) = None /\ Create(c, d))
            => /\ resp'.status = 401
               /\ songs' = songs
               /\ nextSongId' = nextSongId]_vars

\* a create without a cookie has just been refused while a user exists
C4_Witness ==
    /\ resp.op = "create"
    /\ resp.cookie = NoCookie
    /\ resp.status = 401
    /\ DOMAIN users # {}

\* C5: the song a create stores is owned by the user the cookie resolves
\* to, whatever 'user' the payload carries.
C5_OwnerFromToken ==
    [][(resp'.op = "create" /\ resp'.status = 201)
       => \A c \in Cookies \cap {resp'.cookie} : \A d \in Payloads :
            Create(c, d)
            => /\ DOMAIN songs' = DOMAIN songs \cup {nextSongId}
               /\ songs'[nextSongId].user = get_user_from_token(c)
               /\ get_user_from_token(c) # None
               /\ resp'.body.user = get_user_from_token(c)
               /\ \A i \in DOMAIN songs : songs'[i] = songs[i]]_vars

\* a create whose payload names another existing user has just succeeded
C5_Witness ==
    /\ resp.op = "create"
    /\ resp.status = 201
    /\ resp.arg \in DOMAIN users
    /\ resp.arg # get_user_from_token(resp.cookie)
    /\ songs[resp.body.id].user = get_user_from_token(resp.cookie)

\* the writable fields a payload carries
Writable(d) == DOMAIN d \cap {"title", "sequence", "is_public"}

\* C6: update and delete of a song by anyone but its owner fail and leave
\* the songs as they were; by the owner (update with a valid payload) they
\* take effect.
C6_OwnerOnlyWrite ==
    [][/\ resp'.op = "update"
          => \A c \in Cookies \cap {resp'.cookie} :
               \A pk \in DOMAIN songs \cap {resp'.arg[1]} :
               \A d \in Payloads : \A partial \in BOOLEAN :
                  Update(c, pk, d, partial)
                  => IF get_user_from_token(c) # songs[pk].user
                     THEN resp'.status = 404 /\ songs' = songs
                     ELSE (partial \/ {"title", "sequence"} \subseteq DOMAIN d)
                          => /\ resp'.status = 200
                             /\ \A f \in Writable(d) : songs'[pk][f] = d[f]
                             /\ songs'[pk].user = songs[pk].user
       /\ resp'.op = "destroy"
          => \A c \in Cookies \cap {resp'.cookie} :
               \A pk \in DOMAIN songs \cap {resp'.arg} :
               Destroy(c, pk)
               => IF get_user_from_token(c) # songs[pk].user
                  THEN resp'.status = 404 /\ songs' = songs
                  ELSE resp'.status = 204 /\ pk \notin DOMAIN songs']_vars

\* a logged-in user has just been refused an update of another user's public song
C6_Witness ==
    /\ resp.op = "update"
    /\ resp.status = 404
    /\ resp.arg[1] \in DOMAIN songs
    /\ songs[resp.arg[1]].is_public
    /\ get_user_from_token(resp.cookie) # None
    /\ get_user_from_token(resp.cookie) # songs[resp.arg[1]].user

\* C7: after a signup answered 201, a login with the email and password as
\* typed succeeds (whichever way the fallback backend matches emails), its
\* token carries the new user's id and the typed email, and /auth/me with
\* that token returns the same user.
C7_SignupThenLogin ==
    [][\A e \in Emails : \A p \in Passwords : \A n \in Names :
          (Signup(e, p, n) /\ resp'.status = 201)
          => \E ci \in BOOLEAN :
               (LET r == login(e, p, ci)
                IN  /\ r.status = 200
                    /\ r.set_cookie.userId = resp.body.user.id
                    /\ r.set_cookie.email = e
                    /\ get_current_user(r.set_cookie).status = 200
                    /\ get_current_user(r.set_cookie).body.user.id = resp.body.user.id)']_vars

\* C8: a signup (API or form) with the email of an account that has a usable
\* password is refused and changes no user; with the email of an invited
\* account (no usable password) it succeeds and sets the password, so that
\* a login with it succeeds.
C8_InvitedSignupCompletes ==
    [][\A e \in Emails : \A p \in Passwords : \A n \in Names :
          \A i \in DOMAIN users :
             users[i].email = e =>
               /\ Signup(e, p, n)
                    => IF has_usable_password(users[i])
                       THEN resp'.status = 400 /\ users' = users
                       ELSE /\ resp'.status = 201
                            /\ i \in DOMAIN users'
                            /\ check_password(users'[i], p)
                            /\ (\E ci \in BOOLEAN : login(e, p, ci).status = 200)'
               /\ FormSignup(e, p, n)
                    => IF has_usable_password(users[i])
                       THEN resp'.status = 200 /\ users' = users
                       ELSE /\ resp'.status = 302
                            /\ i \in DOMAIN users'
                            /\ check_password(users'[i], p)
                            /\ (\E ci \in BOOLEAN : login(e, p, ci).status = 200)']_vars

\* a cookie that is absent, malformed, wrongly signed, past its expiry, or
\* names a user id the store does not hold
Unresolved(c) ==
    \/ c.kind = "none"
    \/ c.kind = "garbage"
    \/ c.kind = "jwt" /\ c.key # Secret
    \/ c.kind = "jwt" /\ c.exp < now
    \/ c.kind = "jwt" /\ c.userId \notin DOMAIN users

\* C9: every such cookie resolves to the anonymous identity, and every song
\* operation answers a request carrying it exactly as it answers a request
\* without a cookie.
C9_GateFailsClosed ==
    ~observed =>
    \A c \in Cookies :
        Unresolved(c)
        => /\ get_user_from_token(c) = None
           /\ Outcome(list(c)) = Outcome(list(NoCookie))
           /\ \A pk \in Pks :
                 /\ Outcome(retrieve(c, pk)) = Outcome(retrieve(NoCookie, pk))
                 /\ Outcome(destroy(c, pk)) = Outcome(destroy(NoCookie, pk))
                 /\ \A d \in Payloads : \A partial \in BOOLEAN :
                       Outcome(update(c, pk, d, partial))
                         = Outcome(update(NoCookie, pk, d, partial))
           /\ \A d \in Payloads : Outcome(create(c, d)) = Outcome(create(NoCookie, d))

\* a create has just been refused for a well-signed, unexpired token whose
\* user was deleted
C9_Witness ==
    /\ resp.op = "create"
    /\ resp.status = 401
    /\ resp.cookie \in jar
    /\ resp.cookie.exp > now
    /\ resp.cookie.userId \notin DOMAIN users

\* C10 as stated: /auth/me and create each answer every unresolved cookie
\* with the 401 response they give when the cookie is missing.
C10_One401 ==
    \A c \in Cookies :
        Unresolved(c)
        => /\ get_current_user(c).status = 401
           /\ Outcome(get_current_user(c)) = Outcome(get_current_user(NoCookie))
           /\ \A d \in Payloads :
                 /\ create(c, d).status = 401
                 /\ Outcome(create(c, d)) = Outcome(create(NoCookie, d))

\* C10 amended: /auth/me answers 401 to every unresolved cookie, with one
\* response for all cookies that are present (expired, malformed, forged,
\* user gone: the response a malformed cookie gets) and another for the
\* missing cookie; create answers all of them, the missing one included,
\* with one 401 response.
C10_One401PerPresence ==
    ~observed =>
    /\ get_current_user(Garbage).body # get_current_user(NoCookie).body
    /\ \A c \in Cookies :
          Unresolved(c)
          => /\ get_current_user(c).status = 401
             /\ Outcome(get_current_user(c)) =
                   Outcome(get_current_user(IF c.kind = "none" THEN NoCookie ELSE Garbage))
             /\ \A d \in Payloads :
                   /\ create(c, d).status = 401
                   /\ Outcome(create(c, d)) = Outcome(create(NoCookie, d))

\* /auth/me has just answered 401 to a well-signed token past its expiry
C10_Witness ==
    /\ resp.op = "me"
    /\ resp.status = 401
    /\ resp.cookie \in jar
    /\ resp.cookie.exp < now
    /\ resp.cookie.userId \in DOMAIN users

\* C11: a login with a non-empty email and password either succeeds or is
\* answered 401 with the one body 'Invalid credentials' and no cookie,
\* whether no account has the email, the password is wrong, or the account
\* has been deactivated.
C11_LoginFailureGeneric ==
    ~observed =>
    \A e \in Emails : \A p \in Passwords : \A ci \in BOOLEAN :
        /\ login(e, p, ci).status \in {200, 401}
        /\ login(e, p, ci).status = 200
              <=> \E i \in DOMAIN users :
                     /\ users[i].email = e \/ (ci /\ casefold(users[i].email) = casefold(e))
                     /\ check_password(users[i], p)
                     /\ users[i].is_active
        /\ login(e, p, ci).status = 401
              => Outcome(login(e, p, ci))
                   = <<401, ErrorBody("Invalid credentials"), NoCookie>>

\* a login with the right password of a deactivated account has just been
\* refused, while an unknown email and a wrong password are refused too
C11_Witness ==
    /\ resp.op = "login"
    /\ resp.status = 401
    /\ \E i \in DOMAIN users :
          /\ users[i].email = resp.arg[1]
          /\ check_password(users[i], resp.arg[2])
          /\ ~users[i].is_active
          /\ \E q \in Passwords : ~check_password(users[i], q)
    /\ \E e \in Emails : \A i \in DOMAIN users : casefold(users[i].email) # casefold(e)

\* C12: a login or signup that succeeds issues a token whose expiry is the
\* clock at issuance plus 604800 seconds; and a token the service issued,
\* whose user exists, is accepted by the gate and by /auth/me at every
\* second before its expiry and refused at every second after it.
C12_SevenDayExpiry ==
    /\ [](\A c \in jar :
            c.userId \in DOMAIN users
            => /\ now < c.exp => /\ get_user_from_token(c) = c.userId
                                 /\ get_current_user(c).status = 200
               /\ now > c.exp => /\ get_user_from_token(c) = None
                                 /\ get_current_user(c).status = 401)
    /\ [][(resp'.op \in {"login", "signup"} /\ resp'.status \in {200, 201})
          => \A e \in Emails \cap {resp'.arg[1]} :
             \A p \in Passwords \cap {resp'.arg[2]} :
            /\ \A n \in Names :
                  (Signup(e, p, n) /\ resp'.status = 201)
                  => /\ resp'.set_cookie.kind = "jwt"
                     /\ resp'.set_cookie.exp = now + SevenDays
                     /\ resp'.set_cookie.exp - now = 604800
                     /\ now' = now
                     /\ resp'.set_cookie \in jar'
            /\ \A ci \in BOOLEAN :
                  (Login(e, p, ci) /\ resp'.status = 200)
                  => /\ resp'.set_cookie.kind = "jwt"
                     /\ resp'.set_cookie.exp = now + SevenDays
                     /\ resp'.set_cookie.exp - now = 604800
                     /\ now' = now
                     /\ resp'.set_cookie \in jar']_vars

\* /auth/me has just accepted a token in the last second before its expiry
C12_Witness ==
    /\ resp.op = "me"
    /\ resp.status = 200
    /\ resp.cookie \in jar
    /\ resp.cookie.exp = now + 1

\* C13: a logout leaves users, songs, issued tokens and the clock as they
\* were, so every cookie is answered after it as before it by the gate,
\* /auth/me and every song operation; in particular a token issued before
\* the logout, unexpired and of an existing user, still resolves to that user.
C13_LogoutRevokesNothing ==
    [][Logout
       => /\ UNCHANGED <<users, songs, nextUserId, nextSongId, jar, now>>
          /\ resp'.set_cookie = NoCookie
          /\ \A c \in Cookies :
                /\ c \in Cookies'
                /\ get_user_from_token(c)' = get_user_from_token(c)
                /\ (c \in jar /\ now < c.exp /\ c.userId \in DOMAIN users)
                      => get_user_from_token(c)' = c.userId
                /\ Outcome(get_current_user(c))' = Outcome(get_current_user(c))
                /\ Outcome(list(c))' = Outcome(list(c))
                /\ \A d \in Payloads : Outcome(create(c, d))' = Outcome(create(c, d))
                /\ \A pk \in Pks :
                      /\ Outcome(retrieve(c, pk))' = Outcome(retrieve(c, pk))
                      /\ Outcome(destroy(c, pk))' = Outcome(destroy(c, pk))
                      /\ \A d \in Payloads : \A partial \in BOOLEAN :
                            Outcome(update(c, pk, d, partial))'
                              = Outcome(update(c, pk, d, partial))]_vars

\* a logout has just been answered while a token issued before it resolves
\* to its user, who owns a song
C13_Witness ==
    /\ resp.op = "logout"
    /\ \E c \in jar :
          /\ get_user_from_token(c) = c.userId
          /\ get_current_user(c).status = 200
          /\ get_queryset(c) # {}

\* C14: every stored song has an owner, and the owner is an existing user;
\* a create stores the song under the user its cookie resolves to, under an
\* id no song has had; and no step changes the owner of a song that stays
\* stored, an update whose payload carries a 'user' field included.
C14_OwnerFixed ==
    /\ [](\A i \in DOMAIN songs :
            /\ songs[i].user \in DOMAIN users
            /\ songs[i].id = i
            /\ i < nextSongId)
    /\ [][/\ \A i \in DOMAIN songs \cap DOMAIN songs' : songs'[i].user = songs[i].user
          /\ \A i \in DOMAIN songs' \ DOMAIN songs :
                /\ i = nextSongId
                /\ resp'.op = "create"
                /\ songs'[i].user = get_user_from_token(resp'.cookie)
          /\ resp'.op = "update"
             => \A c \in Cookies \cap {resp'.cookie} :
                  \A pk \in DOMAIN songs \cap {resp'.arg[1]} :
                  \A d \in Payloads : \A partial \in BOOLEAN :
                     (Update(c, pk, d, partial) /\ "user" \in DOMAIN d)
                     => /\ songs'[pk].user = songs[pk].user
                        /\ resp'.status = 200 => resp'.body.user = songs[pk].user]_vars

\* an owner's update whose payload names another user id has just succeeded
C14_Witness ==
    /\ resp.op = "update"
    /\ resp.status = 200
    /\ resp.arg[2] # None
    /\ resp.arg[2] # songs[resp.arg[1]].user
    /\ songs[resp.arg[1]].user = get_user_from_token(resp.cookie)

\* C15: a song created by a payload without 'is_public' is stored private,
\* and from then on retrieve answers 404 to every cookie that does not
\* resolve to its owner; a stored private song becomes public only by a
\* successful update of that song by its owner with is_public true.
C15_PrivateByDefault ==
    [][/\ resp'.op = "create"
          => \A c \in Cookies \cap {resp'.cookie} : \A d \in Payloads :
               (Create(c, d) /\ resp'.status = 201 /\ "is_public" \notin DOMAIN d)
               => /\ ~songs'[nextSongId].is_public
                  /\ resp'.body.is_public = FALSE
                  /\ \A o \in Cookies' :
                        get_user_from_token(o)' # songs'[nextSongId].user
                        => retrieve(o, nextSongId)'.status = 404
       /\ \A i \in DOMAIN songs \cap DOMAIN songs' :
             (~songs[i].is_public /\ songs'[i].is_public)
             => /\ resp'.op = "update"
                /\ resp'.status = 200
                /\ resp'.arg[1] = i
                /\ resp'.body.is_public
                /\ get_user_from_token(resp'.cookie) = songs[i].user
       /\ \A i \in DOMAIN songs' :
             ~songs'[i].is_public
             => \A o \in Cookies' :
                   get_user_from_token(o)' # songs'[i].user
                   => retrieve(o, i)'.status = 404]_vars

\* a caller without a cookie has just been refused a song that was created
\* without the flag and never updated
C15_Witness ==
    /\ resp.op = "retrieve"
    /\ resp.status = 404
    /\ resp.cookie = NoCookie
    /\ resp.arg \in DOMAIN songs
    /\ ~songs[resp.arg].is_public
    /\ \E o \in jar :
          /\ get_user_from_token(o) \notin {None, songs[resp.arg].user}
          /\ retrieve(o, resp.arg).status = 404

\* C16: every signup is answered either 201, with a token in the cookie and
\* one new account, or 400, with no cookie and the accounts as they were
\* (a missing email or password and an email that collides with a stored
\* one only after normalisation included); never 500.
C16_SignupTwoOutcomes ==
    [][\A e \in Emails \cup {NoEmail} : \A p \in Passwords \cup {NoPassword} :
          \A n \in Names :
             Signup(e, p, n)
             => \/ /\ resp'.status = 201
                   /\ resp'.set_cookie.kind = "jwt"
                   /\ DOMAIN users' = DOMAIN users \cup {nextUserId}
                   /\ nextUserId \notin DOMAIN users
                \/ /\ resp'.status = 400
                   /\ resp'.set_cookie = NoCookie
                   /\ users' = users]_vars

\* C17: when signup requests are handled at the same time, no two accounts
\* ever have the same email; and among the finished requests for one email
\* that passed the existence check, exactly one was answered 201 with a
\* token for the account it created, every other one was refused and given
\* no cookie, and one account has the email.
C17_OneWinner ==
    /\ \A i \in DOMAIN users : \A j \in DOMAIN users :
          users[i].email = users[j].email => i = j
    /\ \A v \in Workers :
          (inflight[v].pc = "done" /\ inflight[v].status # 400)
          => LET same == { w \in Workers :
                             /\ inflight[w].pc = "done"
                             /\ inflight[w].status # 400
                             /\ normalize_email(inflight[w].email)
                                  = normalize_email(inflight[v].email) }
                 winners == { w \in same : inflight[w].status = 201 }
             IN  /\ Cardinality(winners) = 1
                 /\ Cardinality({ i \in DOMAIN users :
                        users[i].email = normalize_email(inflight[v].email) }) = 1
                 /\ \A w \in winners :
                       /\ inflight[w].set_cookie.kind = "jwt"
                       /\ users[inflight[w].set_cookie.userId].email
                            = normalize_email(inflight[w].email)
                 /\ \A w \in same \ winners : inflight[w].set_cookie = NoCookie

\* two requests with the same email as typed have both passed the existence
\* check, which only happens when both checks precede both writes, and both
\* have been answered
C17_Witness ==
    \E v \in Workers : \E w \in Workers :
        /\ v # w
        /\ inflight[v].pc = "done" /\ inflight[w].pc = "done"
        /\ inflight[v].email = inflight[w].email
        /\ inflight[v].status = 201
        /\ inflight[w].status = 500

\* C18: a signup that is not answered 201 and a login that is not answered
\* 200 leave the users table as it was: the same rows, each with its
\* password, email and name. So every login is answered after it as before
\* it: a password that logged an account in still does, and the password
\* the refused request carried does not, unless it is the account's own.
C18_RefusalChangesNoUser ==
    [][/\ (resp'.op = "signup" /\ resp'.status # 201)
          => \A e \in (Emails \cup {NoEmail}) \cap {resp'.arg[1]} :
             \A p \in (Passwords \cup {NoPassword}) \cap {resp'.arg[2]} :
             \A n \in Names :
                Signup(e, p, n)
                => /\ users' = users
                   /\ nextUserId' = nextUserId
                   /\ resp'.set_cookie = NoCookie
                   /\ \A i \in DOMAIN users : \A ci \in BOOLEAN :
                         /\ \A q \in Passwords :
                               login(users[i].email, q, ci)'.status
                                 = IF check_password(users[i], q) /\ users[i].is_active
                                   THEN 200
                                   ELSE login(users[i].email, q, ci).status
                         /\ (users[i].email = normalize_email(e) /\ ~check_password(users[i], p))
                              => login(users[i].email, p, ci)'.status # 200
       /\ (resp'.op = "login" /\ resp'.status # 200)
          => \A e \in (Emails \cup {NoEmail}) \cap {resp'.arg[1]} :
             \A p \in (Passwords \cup {NoPassword}) \cap {resp'.arg[2]} :
             \A ci \in BOOLEAN :
                Login(e, p, ci)
                => /\ users' = users
                   /\ nextUserId' = nextUserId
                   /\ resp'.set_cookie = NoCookie
                   /\ jar' = jar
                   /\ \A i \in DOMAIN users : \A cj \in BOOLEAN : \A q \in Passwords :
                         login(users[i].email, q, cj)'.status
                           = IF check_password(users[i], q) /\ users[i].is_active
                             THEN 200
                             ELSE login(users[i].email, q, cj).status]_vars

\* a signup for an existing account's email, carrying another password than
\* the account's, has just been refused
C18_Witness ==
    /\ resp.op = "signup"
    /\ resp.status = 400
    /\ \E i \in DOMAIN users :
          /\ users[i].email = resp.arg[1]
          /\ has_usable_password(users[i])
          /\ resp.arg[2] # NoPassword
          /\ ~check_password(users[i], resp.arg[2])
          /\ \E q \in Passwords : \A ci \in BOOLEAN :
                login(users[i].email, q, ci).status = 200

====
